---- MODULE Spec2Model ----
(***************************************************************************)
(* TradingView webhook pipeline: the Flask listener                        *)
(* (python-backend/webhook_listener.py, webhook_port80.py) and the AWS     *)
(* Lambda handler (tradingview-webhook-aws/lambda_function.py).            *)
(*                                                                         *)
(* Python values are modelled as follows.  A dict is a function from a     *)
(* finite set of key strings to values; every scalar value is the string   *)
(* of its Python text (the bool False is "False", True is "True").  A      *)
(* request body is a record [kind, d]: d is the parsed dict when kind is   *)
(* "dict" and the empty dict otherwise.                                    *)
(***************************************************************************)
EXTENDS Integers, Sequences, FiniteSets, TLC

VARIABLES
    alerts_received,  \* listener: AlertProcessor.alerts_received (list of dicts)
    owner,            \* ghost: owner[i] = id of the request that appended entry i
    pc,               \* listener: position of each request-handling thread
    frame,            \* listener: the locals of each thread's handler
    nreq,             \* ghost: number of requests/invocations started so far
    responses,        \* ghost: listener responses, in the order they were sent
    now,              \* the wall clock, in ticks
    table,            \* lambda: the DynamoDB table, AlertID -> item
    lam_responses,    \* ghost: lambda responses, in invocation order
    event,            \* lambda: path and httpMethod of the latest invocation
    stdout_ok,        \* listener: whether a write to sys.stdout succeeds
    symbol,           \* decomposer: the argument of parse_symbol_info
    descriptor        \* decomposer: what parse_symbol_info derived from it

vars == <<alerts_received, owner, pc, frame, nreq, responses, now, table,
          lam_responses, event, stdout_ok, symbol, descriptor>>

listenerVars == <<alerts_received, owner, pc, frame, responses>>
lambdaVars == <<table, lam_responses, event>>
decomposeVars == <<symbol, descriptor>>

----------------------------------------------------------------------------
(* Bounds of the model *)

MaxReq == 3          \* listener requests per run
MaxInv == 2          \* lambda invocations per run
MaxTime == 2         \* last clock tick
TicksPerSec == 2     \* clock ticks per wall-clock second
MaxLogLen == 11      \* longest pre-filled log of the Recent specification
MaxCount == 12       \* largest count query parameter
MaxNeg == 2          \* most negative count query parameter is -MaxNeg
MaxItems == 3        \* largest pre-filled table of the Status specification
ScanPageItems == 2   \* items within the 1 MB that one Scan call reads

\* Request-handling threads of the Flask server (one per request in flight).
Threads == {1, 2}

----------------------------------------------------------------------------
(* Python dict helpers *)

EmptyDict == << >>

\* d.get(k, default)
Get(d, k, default) == IF k \in DOMAIN d THEN d[k] ELSE default

\* d[k] = v
Put(d, k, v) == [x \in DOMAIN d \cup {k} |-> IF x = k THEN v ELSE d[x]]

Min(a, b) == IF a < b THEN a ELSE b

\* bool(d) for a dict
Truthy(d) == DOMAIN d # {}

----------------------------------------------------------------------------
(* Clock and time formats *)

SecondOf(t) == t \div TicksPerSec

\* datetime.now().strftime("%Y-%m-%d %H:%M:%S"): whole seconds
Strftime(t) == "2025-09-30 10:00:0" \o ToString(SecondOf(t))

Tick ==
    /\ now < MaxTime
    /\ now' = now + 1
    /\ UNCHANGED <<listenerVars, lambdaVars, nreq, stdout_ok, decomposeVars>>

----------------------------------------------------------------------------
(* Payloads and request bodies *)

\* The lone surrogate "\ud800": json.loads accepts it, print() cannot encode it.
Surrogate == "<U+D800>"

BuyOrder ==
    ("ALERTNAME" :> "NEW BUY ORDER") @@ ("symbol" :> "NIFTY250930P25800") @@
    ("limit_price" :> "25800") @@ ("capital_percent" :> "50") @@
    ("lot_size" :> "75") @@ ("order_slicing_value" :> "1800")

\* A payload whose keys collide with the two the listener writes.
Stamped ==
    ("ALERTNAME" :> "SELL") @@ ("timestamp" :> "caller-time") @@
    ("processed" :> "True")

Unprintable == ("ALERTNAME" :> Surrogate) @@ ("symbol" :> "NIFTY250930C25800")

\* A symbol with no marker, and a symbol print() cannot encode.
NoMarker == ("ALERTNAME" :> "BUY") @@ ("symbol" :> "NIFTY")
BadSymbol == ("ALERTNAME" :> "BUY") @@ ("symbol" :> Surrogate)

test_alert ==
    ("ALERTNAME" :> "TEST ALERT") @@ ("symbol" :> "NIFTY250930P25800") @@
    ("limit_price" :> "25800") @@ ("capital_percent" :> "50") @@
    ("lot_size" :> "75") @@ ("order_slicing_value" :> "1800") @@
    ("test_mode" :> "True")

DictBody(d) == [kind |-> "dict", d |-> d]
Other(k) == [kind |-> k, d |-> EmptyDict]

\* kind: "missing" (no body sent), "empty" (zero-length body), "invalid" (not
\* JSON), "null" (the JSON null, or another falsy non-dict value), "scalar" (a
\* truthy JSON value that is no object, such as 5 or [1]), "dict" (an object).
Bodies ==
    {DictBody(BuyOrder), DictBody(Stamped), DictBody(Unprintable),
     DictBody(NoMarker), DictBody(BadSymbol), DictBody(EmptyDict),
     Other("missing"), Other("empty"), Other("invalid"), Other("null"),
     Other("scalar")}

----------------------------------------------------------------------------
(* Listener: AlertProcessor *)

\* The values print_alert_details hands to print(); print raises
\* UnicodeEncodeError on a lone surrogate.
PrintedKeys ==
    {"timestamp", "ALERTNAME", "symbol", "limit_price", "capital_percent",
     "lot_size", "order_slicing_value"}

PrintFaults(d) == \E k \in PrintedKeys \cap DOMAIN d : d[k] = Surrogate

\* process_alert, lines 77-79: the dict is stamped in place
Stamp(d, t) == Put(Put(d, "timestamp", Strftime(t)), "processed", "False")

\* Python's seq[i:] for any integer i (negative counts from the end)
SliceFrom(s, i) ==
    LET n == Len(s)
        lo == IF i < 0 THEN (IF n + i < 0 THEN 0 ELSE n + i)
              ELSE (IF i > n THEN n ELSE i)
    IN  SubSeq(s, lo + 1, n)

\* Mutant: the oldest count records instead of the newest.
get_recent_alerts_head(log, count) == SubSeq(log, 1, Min(count, Len(log)))

\* Mutant: the newest records, newest first.
get_recent_alerts_newest_first(log, count) ==
    LET a == IF log # <<>> THEN SliceFrom(log, 0 - count) ELSE <<>>
    IN  [k \in 1..Len(a) |-> a[Len(a) + 1 - k]]

\* get_recent_alerts: self.alerts_received[-count:] if self.alerts_received else []
get_recent_alerts(log, count) ==
    IF log # <<>> THEN SliceFrom(log, 0 - count) ELSE <<>>

\* Mutant: the id of the record after the last one.
alert_id_next(log) == Len(log) + 1

\* Mutant: a 0-based id.
alert_id_zero_based(log) == Len(log) - 1

\* webhook(), line 263: 'alert_id': len(alert_processor.alerts_received)
alert_id_of(log) == Len(log)

\* Mutant: a lost update, the new record lands on the last slot.
Append_alert_overwrite(log, d) ==
    IF log = <<>> THEN <<d>> ELSE [log EXCEPT ![Len(log)] = d]

\* Mutant: list.insert(0, d), the new record shifts every older one.
Append_alert_front(log, d) == <<d>> \o log

\* list.append: one bytecode, atomic under the interpreter lock
Append_alert(log, d) == Append(log, d)

\* event['path'] and event['httpMethod'] before the first invocation; the
\* route is also kept with the answer of a request no handler took.
NoRoute == [path |-> "", httpMethod |-> ""]

\* The locals of parse_symbol_info, lines 135-138, before anything is derived.
\* Strings the decomposer reads or builds are sequences of characters.
NoDescriptor ==
    [index_name |-> <<>>, expiry_date |-> <<>>, option_type |-> "",
     strike_price |-> <<>>, raised |-> FALSE, caught |-> FALSE,
     escaped |-> FALSE, done |-> FALSE]

----------------------------------------------------------------------------
(* Listener: parse_symbol_info, on strings as sequences of characters *)

\* The longest symbol drawn from the whole alphabet.
MaxSymLen == 3

\* 'P' in symbol
Contains(s, c) == \E i \in 1..Len(s) : s[i] = c

\* Python's seq[:i] for any integer i (negative counts from the end)
SliceTo(s, i) ==
    LET n == Len(s)
        hi == IF i < 0 THEN (IF n + i < 0 THEN 0 ELSE n + i)
              ELSE (IF i > n THEN n ELSE i)
    IN  SubSeq(s, 1, hi)

\* The position of the first c in s; only used where s contains c.
Find(s, c) == CHOOSE i \in 1..Len(s) : s[i] = c /\ \A j \in 1..(i - 1) : s[j] # c

\* symbol.split(c, 1): split at the first occurrence only
split_first(s, c) ==
    IF Contains(s, c)
    THEN <<SubSeq(s, 1, Find(s, c) - 1), SubSeq(s, Find(s, c) + 1, Len(s))>>
    ELSE <<s>>

\* symbol.split(c): split at every occurrence
RECURSIVE split(_, _)
split(s, c) ==
    IF Contains(s, c)
    THEN <<SubSeq(s, 1, Find(s, c) - 1)>>
             \o split(SubSeq(s, Find(s, c) + 1, Len(s)), c)
    ELSE <<s>>

\* The expiry read from the head of the prefix instead of its tail.
expiry_date_head(prefix) == SliceTo(prefix, 6)

\* prefix[-6:], line 160
expiry_date_of(prefix) == SliceFrom(prefix, 0 - 6)

\* prefix[:-6], line 159
index_name_of(prefix) == SliceTo(prefix, 0 - 6)

\* The length test dropped.
has_expiry_always(prefix) == Len(prefix) >= 0

\* len(prefix) >= 6, line 158
has_expiry(prefix) == Len(prefix) >= 6

\* A handler that lets the fault of its body leave the function.
except_nothing(d) == [d EXCEPT !.escaped = d.raised]

\* try ... except Exception, lines 131 and 169-172: a fault of the body is
\* reported and swallowed
except_Exception(d) == [d EXCEPT !.caught = d.raised]

\* The two tests in the other order: C first, P only without a C.
marker_in_C_first(sym) ==
    IF Contains(sym, "C") THEN "C" ELSE IF Contains(sym, "P") THEN "P" ELSE ""

\* if 'P' in symbol ... elif 'C' in symbol, lines 141 and 148: the character
\* the symbol is split at, "" when it has neither
marker_in(sym) ==
    IF Contains(sym, "P") THEN "P" ELSE IF Contains(sym, "C") THEN "C" ELSE ""

\* The body of the try block, lines 135-160.  prefix is assigned only when
\* the split yields two parts; line 158 reads it regardless, and reading the
\* unassigned local raises UnboundLocalError with the four components still
\* at their initial "".
parse_body(sym) ==
    LET marker == marker_in(sym)
        parts == IF marker = "" THEN <<>> ELSE split(sym, marker)
        start == [index_name |-> <<>>, expiry_date |-> <<>>,
                  option_type |-> "", strike_price |-> <<>>,
                  raised |-> FALSE, caught |-> FALSE, escaped |-> FALSE,
                  done |-> TRUE]
    IN  IF Len(parts) = 2
        THEN LET prefix == parts[1]
                 split2 == [start EXCEPT
                               !.strike_price = parts[2],
                               !.option_type =
                                   IF marker = "P" THEN "PUT" ELSE "CALL"]
             IN  IF has_expiry(prefix)
                 THEN [split2 EXCEPT !.index_name = index_name_of(prefix),
                                     !.expiry_date = expiry_date_of(prefix)]
                 ELSE split2
        ELSE [start EXCEPT !.raised = TRUE]

parse_symbol_info(sym) == except_Exception(parse_body(sym))

\* Symbols: every string over a small alphabet up to MaxSymLen, and longer
\* ones built from an underlying, six digits, a marker and a strike, with
\* and without a further marker.  parse_symbol_info is reached only after
\* line 107 has printed the symbol, so every symbol it gets is printable.
Alphabet == {"N", "P", "C", "2"}
ShortSymbols == UNION {[1..k -> Alphabet] : k \in 0..MaxSymLen}

NIFTY == <<"N", "I", "F", "T", "Y">>
Underlyings == {<<>>, <<"N">>, NIFTY, <<"B", "A", "N", "K">>}
SixDigits == {<<"2", "5", "0", "9", "3", "0">>, <<"1", "2", "3", "4", "5", "6">>}
Strikes == {<<"7">>, <<"2", "5", "8", "0", "0">>}
Markers == {"P", "C"}

WellFormed ==
    {u \o e \o <<m>> \o k :
        u \in Underlyings, e \in SixDigits, m \in Markers, k \in Strikes}
ShortPrefixed ==
    {u \o <<m>> \o k : u \in Underlyings, m \in Markers, k \in Strikes}
Ambiguous ==
    {s \o <<m>> : s \in WellFormed \cup ShortPrefixed, m \in Markers} \cup
    {<<m>> \o s : s \in WellFormed \cup ShortPrefixed, m \in Markers}

Symbols == ShortSymbols \cup WellFormed \cup ShortPrefixed \cup Ambiguous

\* The characters of the symbols the payloads carry.
Chars(str) ==
    CASE str = "NIFTY250930P25800" ->
            NIFTY \o <<"2", "5", "0", "9", "3", "0", "P", "2", "5", "8", "0", "0">>
      [] str = "NIFTY250930C25800" ->
            NIFTY \o <<"2", "5", "0", "9", "3", "0", "C", "2", "5", "8", "0", "0">>
      [] str = "NIFTY" -> NIFTY
      [] OTHER -> <<>>

\* print_alert_details, lines 102-116: the prints, then parse_symbol_info
\* when the payload has a truthy symbol.  A fault of a print, or one that
\* leaves parse_symbol_info, leaves print_alert_details.
DetailsFault(d) ==
    \/ PrintFaults(d)
    \/ /\ Get(d, "symbol", "") # ""
       /\ parse_symbol_info(Chars(d["symbol"])).escaped

----------------------------------------------------------------------------
(* Listener: request handlers.  A handler is split where another thread can *)
(* run between two of its accesses to alerts_received.                      *)

NoArg == [kind |-> "absent", v |-> 0]

NoFrame == [rid |-> 0, body |-> Other("missing"), alert_data |-> EmptyDict,
            arg |-> NoArg, count |-> 0, alerts |-> <<>>, logAt |-> <<>>]

\* The keys of the JSON object a handler answers with: lines 260-265 and
\* 273 (webhook), 296-302 (status), 331-336 (get_alerts), 375-380
\* (test_webhook).  A fault no handler catches is answered by Flask, with no
\* JSON at all.
BodyKeys(op, status) ==
    CASE status = "unhandled" -> {}
      [] status = "error" -> {"error"}
      [] op = "webhook" -> {"status", "message", "alert_id", "timestamp"}
      [] op = "test" ->
            {"status", "message", "test_alert", "total_alerts_now"}
      [] op = "status" ->
            {"status", "message", "total_alerts", "server_time",
             "endpoints_available"}
      [] OTHER -> {"alerts", "alerts_returned", "total_count", "message"}

Response(rid, op, code, status) ==
    [rid |-> rid, op |-> op, code |-> code, status |-> status,
     keys |-> BodyKeys(op, status), alert_id |-> 0,
     timestamp |-> "", sent |-> Other("missing"), pending |-> 0,
     arg |-> NoArg, count |-> 0, alerts |-> <<>>, alerts_returned |-> 0,
     total |-> 0, logAt |-> <<>>]

Reply(t, r) ==
    /\ responses' = Append(responses, r)
    /\ pc' = [pc EXCEPT ![t] = "idle"]
    /\ frame' = [frame EXCEPT ![t] = NoFrame]

\* The server hands a new request to a thread that handles no request; which
\* one is immaterial, so it is the lowest-numbered one.
Accepts(t) ==
    /\ pc[t] = "idle"
    /\ \A u \in Threads : u < t => pc[u] # "idle"
    /\ nreq < MaxReq

\* request.get_json() on a body Flask cannot parse raises BadRequest, which
\* the handler's "except Exception" turns into a 500.  With no JSON body at
\* all get_json returns None or raises UnsupportedMediaType, by Flask version.
GetJsonRaises(body) == body.kind \in {"empty", "invalid"}
GetJsonMayRaise(body) == body.kind = "missing"

\* "if not alert_data": None, {} and every other falsy value
NoData(body) ==
    \/ body.kind \in {"missing", "null"}
    \/ body.kind = "dict" /\ ~Truthy(body.d)

\* webhook(), lines 239-250 (and the TypeError of line 78 on a non-dict).  The
\* print of line 239 stands before the try: its fault leaves the handler.
WebhookRecv(t, bodies) ==
    /\ Accepts(t)
    /\ nreq' = nreq + 1
    /\ \E body \in bodies :
        LET rid == nreq + 1
            fail(code, status) ==
                Reply(t, [Response(rid, "webhook", code, status)
                              EXCEPT !.sent = body])
        IN  IF ~stdout_ok
            THEN fail(500, "unhandled")
            ELSE
                \/ /\ GetJsonRaises(body) \/ GetJsonMayRaise(body)
                   /\ fail(500, "error")
                \/ /\ ~GetJsonRaises(body)
                   /\ NoData(body)
                   /\ fail(400, "error")
                \/ /\ body.kind = "scalar"
                   /\ fail(500, "error")
                \/ /\ body.kind = "dict"
                   /\ Truthy(body.d)
                   /\ pc' = [pc EXCEPT ![t] = "w_process"]
                   /\ frame' = [frame EXCEPT ![t] =
                                   [NoFrame EXCEPT !.rid = rid, !.body = body,
                                                   !.alert_data = body.d]]
                   /\ UNCHANGED responses
    /\ UNCHANGED <<alerts_received, owner, now, lambdaVars, stdout_ok,
                   decomposeVars>>

\* process_alert, lines 77-82: stamp and append
WebhookProcess(t) ==
    /\ pc[t] = "w_process"
    /\ LET d == Stamp(frame[t].alert_data, now)
       IN  /\ alerts_received' = Append_alert(alerts_received, d)
           /\ owner' = Append(owner, frame[t].rid)
           /\ frame' = [frame EXCEPT ![t].alert_data = d]
    /\ pc' = [pc EXCEPT ![t] = "w_finish"]
    /\ UNCHANGED <<nreq, responses, now, lambdaVars, stdout_ok,
                   decomposeVars>>

\* process_alert, lines 85-90, then webhook(), lines 257-273.  The except
\* block prints too (line 270): with stdout failing, the fault it caught is
\* followed by one of its own, which leaves the handler.
WebhookFinish(t) ==
    /\ pc[t] = "w_finish"
    /\ LET f == frame[t]
       IN  IF ~stdout_ok
           THEN Reply(t, [Response(f.rid, "webhook", 500, "unhandled")
                              EXCEPT !.sent = f.body])
           ELSE IF DetailsFault(f.alert_data)
           THEN Reply(t, [Response(f.rid, "webhook", 500, "error")
                              EXCEPT !.sent = f.body])
           ELSE Reply(t, [Response(f.rid, "webhook", 200, "success")
                              EXCEPT !.sent = f.body,
                                     !.alert_id = alert_id_of(alerts_received),
                                     !.timestamp = f.alert_data["timestamp"]])
    /\ UNCHANGED <<alerts_received, owner, nreq, now, lambdaVars, stdout_ok,
                   decomposeVars>>

\* test_webhook(), lines 357-373: the print of line 357, then
\* process_alert(test_alert), stamp and append
TestProcess(t) ==
    /\ Accepts(t)
    /\ nreq' = nreq + 1
    /\ IF ~stdout_ok
       THEN /\ Reply(t, [Response(nreq + 1, "test", 500, "unhandled")
                             EXCEPT !.sent = DictBody(test_alert)])
            /\ UNCHANGED <<alerts_received, owner>>
       ELSE LET d == Stamp(test_alert, now)
            IN  /\ alerts_received' = Append_alert(alerts_received, d)
                /\ owner' = Append(owner, nreq + 1)
                /\ frame' = [frame EXCEPT ![t] =
                                [NoFrame EXCEPT !.rid = nreq + 1,
                                                !.body = DictBody(test_alert),
                                                !.alert_data = d]]
                /\ pc' = [pc EXCEPT ![t] = "t_finish"]
                /\ UNCHANGED responses
    /\ UNCHANGED <<now, lambdaVars, stdout_ok, decomposeVars>>

\* process_alert, lines 85-90, then test_webhook(), lines 375-380.  No
\* try/except here: a fault in print would leave the handler.
TestFinish(t) ==
    /\ pc[t] = "t_finish"
    /\ LET f == frame[t]
       IN  IF ~stdout_ok \/ DetailsFault(f.alert_data)
           THEN Reply(t, [Response(f.rid, "test", 500, "unhandled")
                              EXCEPT !.sent = f.body])
           ELSE Reply(t, [Response(f.rid, "test", 200, "test_success")
                              EXCEPT !.sent = f.body,
                                     !.total = Len(alerts_received),
                                     !.timestamp = f.alert_data["timestamp"]])
    /\ UNCHANGED <<alerts_received, owner, nreq, now, lambdaVars, stdout_ok,
                   decomposeVars>>

\* status(), lines 294-302; no try/except
Status(t) ==
    /\ Accepts(t)
    /\ nreq' = nreq + 1
    /\ responses' = Append(responses,
           IF ~stdout_ok
           THEN Response(nreq + 1, "status", 500, "unhandled")
           ELSE [Response(nreq + 1, "status", 200, "running")
                    EXCEPT !.total = Len(alerts_received),
                           !.pending = Cardinality(
                               {u \in Threads :
                                   pc[u] \in {"w_finish", "t_finish"}})])
    /\ UNCHANGED <<alerts_received, owner, pc, frame, now, lambdaVars, stdout_ok,
                   decomposeVars>>

\* The count parameter of GET /alerts: absent, not an integer, or an integer.
IntArg(n) == [kind |-> "int", v |-> n]
CountArgs ==
    {NoArg, [kind |-> "garbage", v |-> 0]} \cup
    {IntArg(n) : n \in (0 - MaxNeg)..MaxCount}

\* The inputs of the runs with requests in flight together.
SomeBodies == {DictBody(BuyOrder), DictBody(Unprintable), Other("invalid")}
SomeCountArgs == {NoArg, IntArg(1)}

\* request.args.get('count', type=int, default=10)
DefaultCount == 10
ArgCount(arg) == IF arg.kind = "int" THEN arg.v ELSE DefaultCount

\* get_alerts(), lines 325-329: the print of line 326 and the slice of the
\* log; no try/except
GetAlertsSlice(t, args) ==
    /\ Accepts(t)
    /\ nreq' = nreq + 1
    /\ \E arg \in args :
        IF ~stdout_ok
        THEN Reply(t, [Response(nreq + 1, "alerts", 500, "unhandled")
                          EXCEPT !.arg = arg])
        ELSE /\ frame' = [frame EXCEPT ![t] =
                             [NoFrame EXCEPT !.rid = nreq + 1,
                                             !.arg = arg,
                                             !.count = ArgCount(arg),
                                             !.alerts = get_recent_alerts(
                                                 alerts_received, ArgCount(arg)),
                                             !.logAt = alerts_received]]
             /\ pc' = [pc EXCEPT ![t] = "a_respond"]
             /\ UNCHANGED responses
    /\ UNCHANGED <<alerts_received, owner, now, lambdaVars, stdout_ok,
                   decomposeVars>>

\* get_alerts(), lines 331-336: total_count is read when the response is built
GetAlertsRespond(t) ==
    /\ pc[t] = "a_respond"
    /\ LET f == frame[t]
       IN  Reply(t, [Response(f.rid, "alerts", 200, "ok")
                         EXCEPT !.arg = f.arg,
                                !.count = f.count,
                                !.alerts = f.alerts,
                                !.alerts_returned = Len(f.alerts),
                                !.total = Len(alerts_received),
                                !.logAt = f.logAt])
    /\ UNCHANGED <<alerts_received, owner, nreq, now, lambdaVars, stdout_ok,
                   decomposeVars>>

Init ==
    /\ alerts_received = <<>>
    /\ owner = <<>>
    /\ pc = [t \in Threads |-> "idle"]
    /\ frame = [t \in Threads |-> NoFrame]
    /\ nreq = 0
    /\ responses = <<>>
    /\ now = 0
    /\ table = EmptyDict
    /\ lam_responses = <<>>
    /\ event = NoRoute
    /\ stdout_ok = TRUE
    /\ symbol = <<>>
    /\ descriptor = NoDescriptor

Next ==
    \/ Tick
    \/ \E t \in Threads : WebhookRecv(t, SomeBodies)
    \/ \E t \in Threads : WebhookProcess(t)
    \/ \E t \in Threads : WebhookFinish(t)
    \/ \E t \in Threads : TestProcess(t)
    \/ \E t \in Threads : TestFinish(t)
    \/ \E t \in Threads : Status(t)
    \/ \E t \in Threads : GetAlertsSlice(t, SomeCountArgs)
    \/ \E t \in Threads : GetAlertsRespond(t)

\* The listener with its requests in flight together (a threaded server).
Spec == Init /\ [][Next]_vars

AllIdle == \A t \in Threads : pc[t] = "idle"

NextSeq ==
    \/ Tick
    \/ \E t \in Threads : AllIdle /\ WebhookRecv(t, Bodies)
    \/ \E t \in Threads : WebhookProcess(t)
    \/ \E t \in Threads : WebhookFinish(t)
    \/ \E t \in Threads : AllIdle /\ TestProcess(t)
    \/ \E t \in Threads : TestFinish(t)
    \/ \E t \in Threads : AllIdle /\ Status(t)
    \/ \E t \in Threads : AllIdle /\ GetAlertsSlice(t, SomeCountArgs)
    \/ \E t \in Threads : GetAlertsRespond(t)

\* The listener with one request at a time.
SpecSeq == Init /\ [][NextSeq]_vars

\* The environment: from some moment on a write to sys.stdout fails (the
\* pipe or terminal behind it is gone), and every print() raises.
StdoutBreaks ==
    /\ stdout_ok
    /\ stdout_ok' = FALSE
    /\ UNCHANGED <<listenerVars, lambdaVars, nreq, now, decomposeVars>>

NextEnv ==
    \/ StdoutBreaks
    \/ \E t \in Threads : AllIdle /\ WebhookRecv(t, SomeBodies)
    \/ \E t \in Threads : WebhookProcess(t)
    \/ \E t \in Threads : WebhookFinish(t)
    \/ \E t \in Threads : AllIdle /\ TestProcess(t)
    \/ \E t \in Threads : TestFinish(t)
    \/ \E t \in Threads : AllIdle /\ Status(t)
    \/ \E t \in Threads : AllIdle /\ GetAlertsSlice(t, SomeCountArgs)
    \/ \E t \in Threads : GetAlertsRespond(t)

\* The listener, one request at a time, with a stdout that can fail.
SpecEnv == Init /\ [][NextEnv]_vars

\* The log after n ingests of buy orders that differ in their limit price.
FilledLog(n) ==
    [k \in 1..n |-> Stamp(Put(BuyOrder, "limit_price", ToString(25800 + k)), 0)]

InitRecent ==
    /\ \E n \in 0..MaxLogLen :
        /\ alerts_received = FilledLog(n)
        /\ owner = [k \in 1..n |-> 0]
    /\ pc = [t \in Threads |-> "idle"]
    /\ frame = [t \in Threads |-> NoFrame]
    /\ nreq = 0
    /\ responses = <<>>
    /\ now = 0
    /\ table = EmptyDict
    /\ lam_responses = <<>>
    /\ event = NoRoute
    /\ stdout_ok = TRUE
    /\ symbol = <<>>
    /\ descriptor = NoDescriptor

NextRecent ==
    \/ \E t \in Threads : nreq = 0 /\ GetAlertsSlice(t, CountArgs)
    \/ \E t \in Threads : GetAlertsRespond(t)

\* GET /alerts on a log of any length, with any count parameter.
SpecRecent == InitRecent /\ [][NextRecent]_vars

----------------------------------------------------------------------------
(* Lambda: lambda_function.py.  Every invocation is one independent run of  *)
(* lambda_handler; the table is the only state the invocations share.       *)

\* datetime.utcnow().isoformat() + 'Z': seconds and the fraction of a second
Isoformat(t) ==
    "2025-09-30T10:00:0" \o ToString(SecondOf(t)) \o "." \o
    ToString(t % TicksPerSec) \o "Z"

\* datetime.utcnow().strftime('%Y%m%d_%H%M%S'): whole seconds
IdTime(t) == "20250930_10000" \o ToString(SecondOf(t))

Abs(n) == IF n < 0 THEN 0 - n ELSE n

\* hash(str) is keyed per process (PYTHONHASHSEED), so an invocation can see
\* any 64-bit value for its timestamp; these are the sample values.
PyHashes == {7, 12, -10007}

HashMod == 10000
RetentionSeconds == 2592000

\* store_alert_in_db, line 82
AlertId(t, h) == "alert_" \o IdTime(t) \o "_" \o ToString(Abs(h) % HashMod)

\* store_alert_in_db, line 105
StorageErrorId(t) == "storage_error_" \o IdTime(t)

\* process_trading_alert, lines 64-78
process_trading_alert(alert_data, t) ==
    [timestamp |-> Isoformat(t),
     processed |-> "True",
     alert_name |-> Get(alert_data, "ALERTNAME", "UNKNOWN"),
     symbol |-> Get(alert_data, "symbol", ""),
     limit_price |-> Get(alert_data, "limit_price", "0"),
     capital_percent |-> Get(alert_data, "capital_percent", "0"),
     lot_size |-> Get(alert_data, "lot_size", "0"),
     order_slicing_value |-> Get(alert_data, "order_slicing_value", "0"),
     total_quantity |-> Get(alert_data, "total_quantity", "0"),
     raw_data |-> alert_data]

\* store_alert_in_db, lines 84-97
DbItem(alert_id, a, t) ==
    [AlertID |-> alert_id,
     Timestamp |-> a.timestamp,
     AlertName |-> a.alert_name,
     Symbol |-> a.symbol,
     LimitPrice |-> a.limit_price,
     CapitalPercent |-> a.capital_percent,
     LotSize |-> a.lot_size,
     OrderSlicingValue |-> a.order_slicing_value,
     TotalQuantity |-> a.total_quantity,
     Processed |-> a.processed,
     RawData |-> a.raw_data,
     TTL |-> SecondOf(t) + RetentionSeconds]

\* table.put_item(Item=...): the item replaces any item with the same key
put_item(tbl, item) == Put(tbl, item.AlertID, item)

\* create_error_response and the success bodies, as one record shape
LamResponse(op, code, status) ==
    [op |-> op, statusCode |-> code, status |-> status, alert_id |-> "",
     timestamp |-> "", alert_name |-> "", symbol |-> "", total_alerts |-> 0,
     sent |-> Other("missing"), wrote |-> FALSE, touched |-> FALSE,
     route |-> NoRoute]

LamReply(r) == lam_responses' = Append(lam_responses, r)

Invokes ==
    /\ nreq < MaxInv
    /\ nreq' = nreq + 1

\* The clock reads of one invocation: the alert's timestamp at now, the id
\* and the TTL at t2, the same tick or the next.
LaterTicks == {t \in {now, now + 1} : t <= MaxTime}

\* process_trading_alert + store_alert_in_db + the 200 response
\* (handle_webhook lines 44-58, handle_test lines 138-150)
StoreAndReply(op, status, body, alert_data) ==
    \E t2 \in LaterTicks, h \in PyHashes, dbOk \in BOOLEAN :
        LET a == process_trading_alert(alert_data, now)
            id == AlertId(t2, h)
            r == [LamResponse(op, 200, status)
                      EXCEPT !.timestamp = a.timestamp, !.sent = body,
                             !.alert_name = IF op = "webhook"
                                            THEN a.alert_name ELSE "",
                             !.symbol = IF op = "webhook"
                                        THEN a.symbol ELSE "",
                             !.touched = TRUE]
        IN  /\ now' = t2
            /\ IF dbOk
               THEN /\ table' = put_item(table, DbItem(id, a, t2))
                    /\ LamReply([r EXCEPT !.alert_id = id, !.wrote = TRUE])
               ELSE /\ table' = table
                    /\ LamReply([r EXCEPT !.alert_id = StorageErrorId(t2)])

\* handle_webhook, lines 32-62
handle_webhook(body) ==
    IF body.kind \in {"missing", "empty"}
    THEN /\ LamReply([LamResponse("webhook", 400, "error") EXCEPT !.sent = body])
         /\ UNCHANGED <<table, now>>
    ELSE IF body.kind = "invalid"
    THEN /\ LamReply([LamResponse("webhook", 400, "error") EXCEPT !.sent = body])
         /\ UNCHANGED <<table, now>>
    ELSE IF body.kind # "dict"
    THEN \* None, a number, a list: alert_data.get raises AttributeError
         /\ LamReply([LamResponse("webhook", 500, "error") EXCEPT !.sent = body])
         /\ UNCHANGED <<table, now>>
    ELSE StoreAndReply("webhook", "success", body, body.d)

\* handle_test, lines 125-152
test_alert_aws == Put(test_alert, "total_quantity", "3750")

handle_test ==
    StoreAndReply("test", "test_success", DictBody(test_alert_aws),
                  test_alert_aws)

\* table.scan(Select='COUNT')['Count'], line 109-110: one Scan call reads
\* at most 1 MB of the table and counts the items in that page; the rest is
\* reached only by calling again with LastEvaluatedKey, which the handler
\* does not do.
scan_count(tbl) == Min(Cardinality(DOMAIN tbl), ScanPageItems)

\* handle_status, lines 107-123
handle_status ==
    /\ \E scanOk \in BOOLEAN :
        IF scanOk
        THEN LamReply([LamResponse("status", 200, "running")
                           EXCEPT !.total_alerts = scan_count(table),
                                  !.touched = TRUE])
        ELSE LamReply([LamResponse("status", 500, "error")
                           EXCEPT !.touched = TRUE])
    /\ UNCHANGED <<table, now>>

Routes ==
    {[path |-> "/webhook", httpMethod |-> "POST"],
     [path |-> "/status", httpMethod |-> "GET"],
     [path |-> "/test", httpMethod |-> "POST"],
     [path |-> "/alerts", httpMethod |-> "GET"],
     [path |-> "/webhook", httpMethod |-> "GET"]}

LamBodies ==
    {DictBody(BuyOrder), DictBody(EmptyDict),
     Other("missing"), Other("empty"), Other("invalid"), Other("null")}

\* A dispatcher that hands every request it does not know to handle_status.
lambda_handler_status_fallback(route, body) ==
    IF route.path = "/webhook" /\ route.httpMethod = "POST"
    THEN handle_webhook(body)
    ELSE IF route.path = "/test" /\ route.httpMethod = "POST"
    THEN handle_test
    ELSE handle_status

\* lambda_handler, lines 12-30
lambda_handler(route, body) ==
    IF route.path = "/webhook" /\ route.httpMethod = "POST"
    THEN handle_webhook(body)
    ELSE IF route.path = "/status" /\ route.httpMethod = "GET"
    THEN handle_status
    ELSE IF route.path = "/test" /\ route.httpMethod = "POST"
    THEN handle_test
    ELSE /\ LamReply([LamResponse("none", 404, "error") EXCEPT !.route = route])
         /\ UNCHANGED <<table, now>>

LambdaWebhook ==
    /\ Invokes
    /\ event' = [path |-> "/webhook", httpMethod |-> "POST"]
    /\ \E body \in LamBodies :
        lambda_handler([path |-> "/webhook", httpMethod |-> "POST"], body)
    /\ UNCHANGED <<listenerVars, stdout_ok, decomposeVars>>

LambdaOther ==
    /\ Invokes
    /\ \E route \in Routes :
        /\ ~(route.path = "/webhook" /\ route.httpMethod = "POST")
        /\ event' = route
        /\ lambda_handler(route, Other("missing"))
    /\ UNCHANGED <<listenerVars, stdout_ok, decomposeVars>>

NextLambda ==
    \/ Tick
    \/ LambdaWebhook
    \/ LambdaOther

\* The serverless handler: invocations one after another on a shared table.
SpecLambda == Init /\ [][NextLambda]_vars

\* The table after n earlier ingests of the buy order.
RECURSIVE FilledTable(_)
FilledTable(n) ==
    IF n = 0 THEN EmptyDict
    ELSE put_item(FilledTable(n - 1),
                  DbItem("alert_20250929_" \o ToString(n),
                         process_trading_alert(BuyOrder, 0), 0))

InitStatus ==
    /\ alerts_received = <<>>
    /\ owner = <<>>
    /\ pc = [t \in Threads |-> "idle"]
    /\ frame = [t \in Threads |-> NoFrame]
    /\ nreq = 0
    /\ responses = <<>>
    /\ now = 0
    /\ table \in {FilledTable(n) : n \in 0..MaxItems}
    /\ lam_responses = <<>>
    /\ event = NoRoute
    /\ stdout_ok = TRUE
    /\ symbol = <<>>
    /\ descriptor = NoDescriptor

\* The serverless handler on a table that already holds records.
SpecStatus == InitStatus /\ [][NextLambda]_vars

----------------------------------------------------------------------------
(* Properties *)

Idx(seq) == 1..Len(seq)

IsIngest(r) == r.op = "webhook"
IsMutating(r) == r.op \in {"webhook", "test"}
IsOk(r) == r.code = 200

Ingests == SelectSeq(responses, IsIngest)

\* What the listener stores for a request, given the response it sent.
StoredFor(r) == Put(Put(r.sent.d, "timestamp", r.timestamp), "processed", "False")

\* Every Ingest answered so far succeeded, no Test ran, nothing is in flight.
OnlyGoodIngests ==
    /\ AllIdle
    /\ \A i \in Idx(responses) :
        IsMutating(responses[i]) => IsIngest(responses[i]) /\ IsOk(responses[i])

\* C1: after N >= 1 sequential successful Ingests from an empty log the log
\* holds N records, the k-th Ingest was answered alert_id = k, and Recent
\* with count = N yields all N records in arrival order.
C1_AppendMonotonic ==
    (OnlyGoodIngests /\ Len(Ingests) >= 1) =>
        LET N == Len(Ingests)
        IN  /\ Len(alerts_received) = N
            /\ \A k \in 1..N :
                /\ Ingests[k].alert_id = k
                /\ owner[k] = Ingests[k].rid
                /\ alerts_received[k] = StoredFor(Ingests[k])
            /\ get_recent_alerts(alerts_received, N) = alerts_received
            /\ \A i \in Idx(responses) :
                (responses[i].op = "alerts"
                    /\ responses[i].count = Len(responses[i].logAt)
                    /\ responses[i].count >= 1)
                => responses[i].alerts = responses[i].logAt

C1_Witness ==
    /\ OnlyGoodIngests
    /\ Len(Ingests) >= 2
    /\ Ingests[1].sent # Ingests[2].sent
    /\ \E i \in Idx(responses) :
        /\ responses[i].op = "alerts"
        /\ responses[i].count = 1
        /\ Len(responses[i].logAt) = 1

\* C2: under any interleaving, the alert_id of a successful Ingest is the
\* position of that request's own record, and no two successful Ingests
\* are answered the same alert_id.
C2_IdIsOwnPosition ==
    /\ \A i \in Idx(responses) :
        (IsIngest(responses[i]) /\ IsOk(responses[i])) =>
            /\ responses[i].alert_id \in Idx(owner)
            /\ owner[responses[i].alert_id] = responses[i].rid
    /\ \A i, j \in Idx(responses) :
        (i # j /\ IsIngest(responses[i]) /\ IsOk(responses[i])
               /\ IsIngest(responses[j]) /\ IsOk(responses[j]))
        => responses[i].alert_id # responses[j].alert_id

\* The mutating requests among the first n responses, and whether all of
\* them succeeded.
NMutating(n) ==
    Cardinality({i \in 1..n : IsMutating(responses[i])})
AllMutatingOk(n) ==
    \A i \in 1..n : IsMutating(responses[i]) => IsOk(responses[i])

\* C3: no update is lost.  Once N Ingest/Test requests have all returned
\* success and none is in flight, the log holds exactly N records, one per
\* request, and a Status taken with no answered-to-be record pending reports
\* total_alerts = N.
C3_NoLostUpdate ==
    /\ (AllIdle /\ AllMutatingOk(Len(responses))) =>
        /\ Len(alerts_received) = NMutating(Len(responses))
        /\ \A i \in Idx(responses) :
            IsMutating(responses[i]) =>
                Cardinality({k \in Idx(owner) : owner[k] = responses[i].rid}) = 1
    /\ \A i \in Idx(responses) :
        (responses[i].op = "status" /\ responses[i].pending = 0
            /\ AllMutatingOk(i - 1))
        => responses[i].total = NMutating(i - 1)

\* Two mutating requests ran interleaved (an Ingest was answered an id that
\* is not its own position), all succeeded, and a Status saw both records.
C3_Witness ==
    /\ AllIdle
    /\ AllMutatingOk(Len(responses))
    /\ NMutating(Len(responses)) = 2
    /\ \E i \in Idx(responses) :
        /\ IsIngest(responses[i])
        /\ owner[responses[i].alert_id] # responses[i].rid
    /\ \E i \in Idx(responses) :
        /\ responses[i].op = "status"
        /\ responses[i].pending = 0
        /\ responses[i].total = 2

Recents == SelectSeq(responses, LAMBDA r : r.op = "alerts")

\* C4: for count >= 0, Recent returns at most min(count, count()) records,
\* and Recent with count = 0 returns none.
C4_RecentClamped ==
    \A i \in Idx(Recents) :
        LET r == Recents[i]
        IN  r.count >= 0 =>
                /\ Len(r.alerts) <= Min(r.count, Len(r.logAt))
                /\ (r.count = 0 => r.alerts = <<>>)

\* C5: a negative count is clamped to 0: Recent returns no records.
C5_NegativeCountClamped ==
    \A i \in Idx(Recents) :
        Recents[i].count < 0 => Recents[i].alerts = <<>>

\* The last m elements of s, stated element by element.
IsLastOf(a, s, m) ==
    /\ Len(a) = m
    /\ \A k \in 1..m : a[k] = s[Len(s) - m + k]

\* C6: for count >= 1, Recent returns exactly the last min(count, len(log))
\* records in arrival order, newest last; with no count parameter the count
\* used is 10.
C6_RecentSuffix ==
    \A i \in Idx(Recents) :
        LET r == Recents[i]
        IN  /\ r.arg.kind = "absent" => r.count = 10
            /\ r.count >= 1 =>
                   IsLastOf(r.alerts, r.logAt, Min(r.count, Len(r.logAt)))

\* GET /alerts with no count on a log of 11 records returned the last 10.
C6_Witness ==
    \E i \in Idx(Recents) :
        LET r == Recents[i]
        IN  /\ r.arg.kind = "absent"
            /\ Len(r.logAt) = 11
            /\ Len(r.alerts) = 10
            /\ r.alerts[10] = r.logAt[11]
            /\ r.alerts[1] = r.logAt[2]

BadBody(b) == b.kind \in {"missing", "empty", "invalid"}

\* C7: an Ingest whose body is missing, empty or not valid JSON is answered
\* 400 and stores nothing, in the listener and in the serverless handler.
C7_BadBodyIs400 ==
    /\ \A i \in Idx(responses) :
        (IsIngest(responses[i]) /\ BadBody(responses[i].sent)) =>
            /\ responses[i].code = 400
            /\ \A k \in Idx(owner) : owner[k] # responses[i].rid
    /\ \A i \in Idx(lam_responses) :
        (lam_responses[i].op = "webhook" /\ BadBody(lam_responses[i].sent)) =>
            /\ lam_responses[i].statusCode = 400
            /\ ~lam_responses[i].wrote

\* C8: serverless: a failed store write is answered 500, never a 200 that
\* carries an alert id.
C8_WriteFaultIs500 ==
    \A i \in Idx(lam_responses) :
        LET r == lam_responses[i]
        IN  (r.op \in {"webhook", "test"} /\ r.statusCode = 200) => r.wrote

\* C9: serverless: every record whose write was answered with success is
\* still in the store, and no two successful Ingests share an id.
C9_NoRecordLost ==
    /\ \A i \in Idx(lam_responses) :
        LET r == lam_responses[i]
        IN  (r.statusCode = 200 /\ r.wrote) =>
                /\ r.alert_id \in DOMAIN table
                /\ table[r.alert_id].Timestamp = r.timestamp
                /\ table[r.alert_id].RawData = r.sent.d
    /\ \A i, j \in Idx(lam_responses) :
        (i # j /\ lam_responses[i].wrote /\ lam_responses[j].wrote)
        => lam_responses[i].alert_id # lam_responses[j].alert_id

\* C10: ingesting {} is accepted and stores alertName "UNKNOWN", symbol "",
\* the numeric-ish fields "0" and processed = false.
C10_EmptyObjectDefaults ==
    /\ \A i \in Idx(lam_responses) :
        LET r == lam_responses[i]
        IN  (r.op = "webhook" /\ r.sent = DictBody(EmptyDict)) =>
                /\ r.statusCode = 200
                /\ r.wrote =>
                    LET it == table[r.alert_id]
                    IN  /\ it.AlertName = "UNKNOWN"
                        /\ it.Symbol = ""
                        /\ it.LimitPrice = "0"
                        /\ it.CapitalPercent = "0"
                        /\ it.LotSize = "0"
                        /\ it.OrderSlicingValue = "0"
                        /\ it.TotalQuantity = "0"
                        /\ it.Processed = "False"
    /\ \A i \in Idx(responses) :
        (IsIngest(responses[i]) /\ responses[i].sent = DictBody(EmptyDict))
        => IsOk(responses[i])

\* C11: every record created by Ingest or Test, in the listener's log or in
\* the serverless store, carries processed = false, at creation and ever
\* after.
C11_ProcessedFalse ==
    /\ \A i \in Idx(alerts_received) :
        Get(alerts_received[i], "processed", "absent") = "False"
    /\ \A id \in DOMAIN table : table[id].Processed = "False"

\* C12: the raw data retained with a stored record is the payload as the
\* caller sent it: every key sent is there with its original value, and no
\* key is added or overwritten.  The listener retains the payload as the
\* stored record itself, the serverless variant as the item's RawData.
C12_RawRetained ==
    /\ \A i \in Idx(responses) : \A k \in Idx(alerts_received) :
        (IsIngest(responses[i]) /\ IsOk(responses[i])
            /\ owner[k] = responses[i].rid)
        => alerts_received[k] = responses[i].sent.d
    /\ \A id \in DOMAIN table : \E i \in Idx(lam_responses) :
        /\ lam_responses[i].wrote
        /\ lam_responses[i].alert_id = id
        /\ table[id].RawData = lam_responses[i].sent.d

----------------------------------------------------------------------------
(* The decomposer on its own *)

InitDecompose ==
    /\ alerts_received = <<>>
    /\ owner = <<>>
    /\ pc = [t \in Threads |-> "idle"]
    /\ frame = [t \in Threads |-> NoFrame]
    /\ nreq = 0
    /\ responses = <<>>
    /\ now = 0
    /\ table = EmptyDict
    /\ lam_responses = <<>>
    /\ event = NoRoute
    /\ stdout_ok = TRUE
    /\ symbol \in Symbols
    /\ descriptor = NoDescriptor

Parse ==
    /\ ~descriptor.done
    /\ descriptor' = parse_symbol_info(symbol)
    /\ UNCHANGED <<listenerVars, lambdaVars, nreq, now, stdout_ok, symbol>>

SpecDecompose == InitDecompose /\ [][Parse]_vars

Count(s, c) == Cardinality({i \in 1..Len(s) : s[i] = c})
Digits == {"0", "1", "2", "3", "4", "5", "6", "7", "8", "9"}
AllDigits(s) == \A i \in 1..Len(s) : s[i] \in Digits
Before(s, i) == SubSeq(s, 1, i - 1)
After(s, i) == SubSeq(s, i + 1, Len(s))

\* The spec's UNKNOWN descriptor: no option type, every component empty.
UnknownEmpty(d) ==
    /\ d.option_type = ""
    /\ d.index_name = <<>>
    /\ d.expiry_date = <<>>
    /\ d.strike_price = <<>>

\* s is U + six digits + marker + digits with the marker at position i.
ExpiryLen == 6
RoundTripForm(s, i) ==
    /\ s[i] \in Markers
    /\ i > ExpiryLen
    /\ AllDigits(SubSeq(s, i - ExpiryLen, i - 1))
    /\ AllDigits(After(s, i))
    /\ After(s, i) # <<>>
    /\ ~Contains(SubSeq(s, 1, i - ExpiryLen - 1), "P")
    /\ ~Contains(SubSeq(s, 1, i - ExpiryLen - 1), "C")

\* C13: for a symbol U + six digits + P|C + digits, U free of P and C, the
\* decomposer yields underlying U, expiry the six digits, PUT for P and CALL
\* for C, and strike the trailing digits.
C13_RoundTrip ==
    descriptor.done =>
        \A i \in 1..Len(symbol) :
            RoundTripForm(symbol, i) =>
                /\ descriptor.index_name = SubSeq(symbol, 1, i - ExpiryLen - 1)
                /\ descriptor.expiry_date = SubSeq(symbol, i - ExpiryLen, i - 1)
                /\ descriptor.option_type =
                       (IF symbol[i] = "P" THEN "PUT" ELSE "CALL")
                /\ descriptor.strike_price = After(symbol, i)
                /\ ~descriptor.raised

C13_Witness ==
    /\ descriptor.done
    /\ symbol = NIFTY \o <<"2", "5", "0", "9", "3", "0", "P",
                           "2", "5", "8", "0", "0">>
    /\ descriptor.index_name = NIFTY
    /\ descriptor.option_type = "PUT"

\* C14: a symbol with two or more P yields UNKNOWN with underlying, expiry
\* and strike empty, whatever else it contains, and no fault leaves the
\* decomposer.
C14_AmbiguousP ==
    (descriptor.done /\ Count(symbol, "P") >= 2) =>
        /\ UnknownEmpty(descriptor)
        /\ ~descriptor.escaped

C14_Witness ==
    /\ descriptor.done
    /\ Count(symbol, "P") >= 2
    /\ Count(symbol, "C") = 1
    /\ descriptor.caught
    /\ UnknownEmpty(descriptor)

\* The marker the decomposer works with: P when the symbol has one, else C.
MarkerOf(s) ==
    IF Contains(s, "P") THEN "P" ELSE IF Contains(s, "C") THEN "C" ELSE ""

\* C15: when the marker occurs exactly once and fewer than 6 characters
\* precede it, the option type follows the marker, the strike is what
\* follows the marker, underlying and expiry stay empty, and no fault is
\* raised.
C15_ShortPrefix ==
    (/\ descriptor.done
     /\ MarkerOf(symbol) # ""
     /\ Count(symbol, MarkerOf(symbol)) = 1
     /\ Find(symbol, MarkerOf(symbol)) - 1 < ExpiryLen)
    => LET i == Find(symbol, MarkerOf(symbol))
       IN  /\ descriptor.option_type =
                  (IF MarkerOf(symbol) = "P" THEN "PUT" ELSE "CALL")
           /\ descriptor.strike_price = After(symbol, i)
           /\ descriptor.index_name = <<>>
           /\ descriptor.expiry_date = <<>>
           /\ ~descriptor.raised

C15_Witness ==
    /\ descriptor.done
    /\ symbol = NIFTY \o <<"C", "7">>
    /\ descriptor.option_type = "CALL"
    /\ descriptor.strike_price = <<"7">>
    /\ descriptor.index_name = <<>>

\* C16: when neither P nor C occurs exactly once (none of either included)
\* the option type is UNKNOWN and underlying, expiry and strike are empty.
C16_NoSingleMarker ==
    (/\ descriptor.done
     /\ Count(symbol, "P") # 1
     /\ Count(symbol, "C") # 1)
    => UnknownEmpty(descriptor)

C16_Witness ==
    /\ descriptor.done
    /\ Count(symbol, "P") = 0
    /\ Count(symbol, "C") >= 2
    /\ Len(symbol) > MaxSymLen
    /\ UnknownEmpty(descriptor)

\* The printed fields of d other than the symbol are printable.
RestPrintable(d) ==
    \A k \in (PrintedKeys \ {"symbol"}) \cap DOMAIN d : d[k] # Surrogate

\* C17: every accepted payload with a non-empty symbol, whatever the symbol
\* is, is stored by the listener's Ingest and answered with the success
\* response.
C17_SymbolNeverAborts ==
    \A i \in Idx(responses) :
        LET r == responses[i]
        IN  (/\ IsIngest(r)
             /\ r.sent.kind = "dict"
             /\ Get(r.sent.d, "symbol", "") # ""
             /\ RestPrintable(r.sent.d))
            => /\ r.code = 200
               /\ r.status = "success"
               /\ \E k \in Idx(alerts_received) : owner[k] = r.rid

\* rec carries the decomposition of NIFTY250930P25800, under whatever keys.
CarriesDecomposition(rec) ==
    /\ \E k \in DOMAIN rec : rec[k] = "PUT"
    /\ \E k \in DOMAIN rec : rec[k] = "NIFTY"
    /\ \E k \in DOMAIN rec : rec[k] = "250930"
    /\ \E k \in DOMAIN rec : rec[k] = "25800"

\* C18: a successful Ingest of the NEW BUY ORDER payload is answered with
\* status "success" and the symbol, and GET /alerts?count=1 with no
\* ingestion in between returns exactly that record, carrying option type
\* PUT, underlying NIFTY, expiry 250930 and strike 25800.
C18_BuyOrderThenRecent ==
    \A i, j \in Idx(responses) :
        LET r == responses[i]
            g == responses[j]
            n == Len(g.logAt)
        IN  (/\ i < j
             /\ IsIngest(r) /\ IsOk(r)
             /\ r.sent = DictBody(BuyOrder)
             /\ g.op = "alerts"
             /\ g.arg = IntArg(1)
             /\ n >= 1
             /\ owner[n] = r.rid)
            => /\ r.status = "success"
               /\ "symbol" \in r.keys
               /\ g.alerts = <<g.logAt[n]>>
               /\ g.alerts[1]["symbol"] = "NIFTY250930P25800"
               /\ CarriesDecomposition(g.alerts[1])

\* C19: no fault leaves a handler of either variant: every request that
\* faults is answered with the handler's own JSON error object.
C19_NoFaultEscapes ==
    /\ \A i \in Idx(responses) :
        /\ responses[i].status # "unhandled"
        /\ responses[i].code # 200 => "error" \in responses[i].keys
    /\ \A i \in Idx(lam_responses) : lam_responses[i].status # "unhandled"

\* A valid request of one of the four operations, by the answer it got.
ValidListenerRequest(r) ==
    \/ r.op \in {"status", "alerts", "test"}
    \/ IsIngest(r) /\ r.sent = DictBody(BuyOrder)

\* The same for the serverless handler; a Status whose table scan faults is
\* left out.
ValidLambdaRequest(r) ==
    \/ r.op = "status" /\ r.statusCode # 500
    \/ r.op = "test"
    \/ r.op = "webhook" /\ r.sent = DictBody(BuyOrder)
    \/ r.route = [path |-> "/alerts", httpMethod |-> "GET"]

\* C20: Ingest, Status, Recent and Test have the same contract in both
\* variants: a valid request of each is answered 200 by the listener and by
\* the serverless handler alike.
C20_SameContract ==
    /\ \A i \in Idx(responses) :
        ValidListenerRequest(responses[i]) => responses[i].code = 200
    /\ \A i \in Idx(lam_responses) :
        ValidLambdaRequest(lam_responses[i])
            => lam_responses[i].statusCode = 200

\* The (path, method) pairs the serverless dispatcher serves.
SupportedRoutes ==
    {[path |-> "/webhook", httpMethod |-> "POST"],
     [path |-> "/status", httpMethod |-> "GET"],
     [path |-> "/test", httpMethod |-> "POST"]}

LastLam == lam_responses[Len(lam_responses)]

\* C21: a serverless request whose (path, method) is none of the supported
\* routes is answered 404 with an error body, and its handling neither
\* reads nor writes the table.
C21_UnknownRoute404 ==
    /\ (lam_responses # <<>> /\ event \notin SupportedRoutes) =>
        /\ LastLam.statusCode = 404
        /\ LastLam.status = "error"
        /\ ~LastLam.touched
        /\ ~LastLam.wrote
    /\ \A i \in Idx(lam_responses) :
        lam_responses[i].route # NoRoute =>
            /\ lam_responses[i].route \notin SupportedRoutes
            /\ lam_responses[i].statusCode = 404

\* An unknown route is answered 404 while the table holds a record.
C21_Witness ==
    /\ lam_responses # <<>>
    /\ event = [path |-> "/alerts", httpMethod |-> "GET"]
    /\ LastLam.statusCode = 404
    /\ LastLam.route = event
    /\ table # EmptyDict

\* An entry of the log with its processed flag left out.
SansProcessed(rec) == [k \in DOMAIN rec \ {"processed"} |-> rec[k]]

\* One step keeps every entry of the log in place, apart from its processed
\* flag, and adds at most one entry.
LogStep ==
    /\ Len(alerts_received') \in
           {Len(alerts_received), Len(alerts_received) + 1}
    /\ \A k \in Idx(alerts_received) :
        SansProcessed(alerts_received'[k]) = SansProcessed(alerts_received[k])

\* Each entry was created by one request, no request created two, and every
\* Ingest or Test answered with success created one.
OncePerRequest ==
    /\ Len(owner) = Len(alerts_received)
    /\ \A j, k \in Idx(owner) : owner[j] = owner[k] => j = k
    /\ \A i \in Idx(responses) :
        (IsMutating(responses[i]) /\ IsOk(responses[i]))
        => \E k \in Idx(owner) : owner[k] = responses[i].rid

\* C22: listener: a record is created exactly once per accepted Ingest or
\* Test, the log never shrinks, and no operation changes a field other than
\* processed of an entry already in the log.
C22_LogOnlyGrows == []OncePerRequest /\ [][LogStep]_vars

\* Two records are in the log and a Status and a Recent were answered after
\* the second was appended.
C22_Witness ==
    /\ Len(alerts_received) = 2
    /\ alerts_received[1] # alerts_received[2]
    /\ \E i \in Idx(responses) :
        responses[i].op = "alerts" /\ responses[i].alerts_returned = 1
           /\ Len(responses[i].logAt) = 2

\* C23: serverless Status answers 500 when the table cannot be scanned, and
\* otherwise 200 with status "running" and total_alerts equal to the number
\* of items resident in the table.
C23_StatusCountsResident ==
    (lam_responses # <<>> /\ event = [path |-> "/status", httpMethod |-> "GET"])
    => /\ LastLam.op = "status"
       /\ LastLam.statusCode \in {200, 500}
       /\ LastLam.statusCode = 200 =>
            /\ LastLam.status = "running"
            /\ LastLam.total_alerts = Cardinality(DOMAIN table)
       /\ LastLam.statusCode = 500 => LastLam.status = "error"

\* C24: P is tested first and C only when the symbol has no P: a symbol with
\* exactly one P is classified PUT and split at that P even when it also has
\* a C, and a symbol with any P is never classified CALL.
C24_PBeforeC ==
    descriptor.done =>
        /\ Count(symbol, "P") = 1 =>
            LET i == Find(symbol, "P")
            IN  /\ descriptor.option_type = "PUT"
                /\ descriptor.strike_price = After(symbol, i)
                /\ descriptor.index_name \o descriptor.expiry_date =
                       (IF i - 1 >= ExpiryLen THEN Before(symbol, i)
                        ELSE <<>>)
        /\ Contains(symbol, "P") => descriptor.option_type # "CALL"

\* A symbol with one P and a C before it, six or more characters ahead of
\* the P, was classified PUT.
C24_Witness ==
    /\ descriptor.done
    /\ Count(symbol, "P") = 1
    /\ Count(symbol, "C") = 1
    /\ Find(symbol, "C") < Find(symbol, "P")
    /\ Find(symbol, "P") > ExpiryLen
    /\ descriptor.option_type = "PUT"
    /\ descriptor.expiry_date # <<>>

\* C25: listener: an Ingest answered with an error (non-200) leaves the log
\* as it was before the request: no record of that request stays in the log.
C25_FailedIngestLeavesLog ==
    \A i \in Idx(responses) :
        (IsIngest(responses[i]) /\ ~IsOk(responses[i]))
        => \A k \in Idx(owner) : owner[k] # responses[i].rid

\* a is a run of consecutive entries of s, in the order of s.
IsRunOf(a, s) ==
    \E lo \in 0..Len(s) :
        /\ lo + Len(a) <= Len(s)
        /\ \A k \in Idx(a) : a[k] = s[lo + k]

\* C26: listener: with Recent requests interleaved with Ingest and Test,
\* every Recent response has alerts_returned equal to the number of records
\* in alerts, alerts_returned <= total_count, and its records are a
\* contiguous run of the log in arrival order.
C26_RecentConsistent ==
    \A i \in Idx(Recents) :
        LET r == Recents[i]
        IN  /\ r.alerts_returned = Len(r.alerts)
            /\ r.alerts_returned <= r.total
            /\ IsRunOf(r.alerts, alerts_received)

\* A Recent whose slice was taken before another request appended and whose
\* total_count was read after: it returned the one record there was and
\* reports two in total.
C26_Witness ==
    \E i \in Idx(Recents) :
        LET r == Recents[i]
        IN  /\ r.alerts_returned = 1
            /\ Len(r.logAt) = 1
            /\ r.total = 2
            /\ r.alerts[1] = alerts_received[1]

\* The step that answers an Ingest with success: the id it carries is at
\* least the position of the request's own record and at most the length of
\* the log as the response is built.
IdStep ==
    LET n == Len(responses')
        r == responses'[n]
    IN  (n = Len(responses) + 1 /\ IsIngest(r) /\ IsOk(r)) =>
            /\ r.alert_id <= Len(alerts_received)
            /\ \E k \in Idx(owner) : owner[k] = r.rid /\ k <= r.alert_id

\* C27: listener: with Ingest and Test requests interleaved, the alert_id of
\* a successful Ingest is at least the 1-based position of that request's
\* own record and at most the log length when the response is built.
C27_IdBetween == [][IdStep]_vars

\* An Ingest whose record is first in the log was answered alert_id 2.
C27_Witness ==
    \E i \in Idx(responses) :
        /\ IsIngest(responses[i])
        /\ IsOk(responses[i])
        /\ responses[i].alert_id = 2
        /\ owner[1] = responses[i].rid

====
